---- MODULE Spec2Model ----
(***************************************************************************)
(* elf_integer<T> (elfio/elf_integer.hpp): a signed integer wrapper whose  *)
(* operators saturate at numeric_limits<T>::min() / max().                 *)
(*                                                                         *)
(* One object of type elf_integer<T> is modelled.  T is a signed two's     *)
(* complement type of Bits bits.  The template is instantiated both with   *)
(* types of rank below int (int8_t, int16_t), whose operands are promoted  *)
(* to int before every arithmetic operator, and with types of rank int or  *)
(* above (int32_t, int64_t), whose arithmetic happens in T itself; the     *)
(* variable promotes says which of the two the instantiation is.           *)
(***************************************************************************)
EXTENDS Integers, FiniteSets

\* Width of T in bits.
Bits == 4
\* How many bits the source type U of the converting constructor has more
\* than T.
ExtraBits == 1

Pow2(n) == 2 ^ n

\* std::numeric_limits<T>::max() and ::min()
Tmax == Pow2(Bits - 1) - 1
Tmin == -Pow2(Bits - 1)
TRange == Tmin .. Tmax

\* std::numeric_limits<U>::max() and ::min() of the wider source type U
Umax == Pow2(Bits + ExtraBits - 1) - 1
Umin == -Pow2(Bits + ExtraBits - 1)
URange == Umin .. Umax

VARIABLES
    promotes,   \* TRUE: T has rank below int, arithmetic is done in int
    value,      \* elf_integer::value of the object
    op,         \* the operator applied last
    before,     \* value before the operator was applied
    other,      \* other.value, the operand of the operator applied last
    ret,        \* value of the elf_integer the operator returned
    ub,         \* the operator evaluated an expression with undefined behaviour
    trapped     \* the division instruction trapped; the program is gone

vars == <<promotes, value, op, before, other, ret, ub, trapped>>

InT(x) == Tmin <= x /\ x <= Tmax

\* Conversion of an integer to T: the value modulo 2^Bits.
Wrap(x) == ((x - Tmin) % Pow2(Bits)) + Tmin

\* C++ integer division and remainder (truncation toward zero), b # 0.
Abs(x) == IF x < 0 THEN -x ELSE x
Quot(a, b) ==
    IF (a < 0) = (b < 0) THEN Abs(a) \div Abs(b) ELSE -(Abs(a) \div Abs(b))
Rem(a, b) == a - b * Quot(a, b)

\* An expression whose exact result is x overflows the type it is computed
\* in.  With promotion the type is int, which holds every result of one
\* operator applied to two values of T.
Overflows(x) == ~promotes /\ ~InT(x)

\* a / b and a % b are undefined for b = 0 and when the quotient overflows.
DivUndefined(a, b) == b = 0 \/ Overflows(Quot(a, b))

\* What an operator leaves behind: the stored value, whether undefined
\* behaviour was executed, whether the program trapped.
Outcome(v, u, t) == [val |-> v, ub |-> u, trap |-> t]
Done(v) == {Outcome(v, FALSE, FALSE)}
Mark(S, u) == {[r EXCEPT !.ub = r.ub \/ u] : r \in S}

\* The truth values of a comparison against an expression with exact result
\* e: the exact comparison, or either value when computing e is undefined.
Cmp(exact, e) == IF Overflows(e) THEN BOOLEAN ELSE {exact}

\* value = <result of an arithmetic operator with exact result x>.  In range
\* the result is stored as is.  Out of range: with promotion the int result
\* is converted back to T; without, the signed overflow is undefined and the
\* build either wraps or, having assumed no overflow, goes on with the exact
\* result in a wider register.
Store(x) ==
    IF InT(x) THEN Done(x)
    ELSE IF promotes THEN Done(Wrap(x))
    ELSE {Outcome(Wrap(x), TRUE, FALSE), Outcome(x, TRUE, FALSE)}

\* One "if ( c ) Then else Else" whose condition c has the truth values G;
\* u: evaluating c is undefined; t: evaluating c can trap (a division); v is
\* the value the object holds meanwhile.
Branch(G, u, t, v, Then, Else) ==
    (IF t THEN {Outcome(v, TRUE, TRUE)} ELSE {})
        \cup UNION {Mark(IF b THEN Then ELSE Else, u) : b \in G}

\* elf_integer( const elf_integer<U>& other ) : value( other.value ): the
\* member initialiser converts U to T, the comparisons then read the T.
ConvertValue(u) ==
    LET v == Wrap(u)
    IN IF v > Tmax THEN Tmax
       ELSE IF v < Tmin THEN Tmin
       ELSE v

\* operator+=
AddAssignOutcomes(v, o) ==
    LET hi == Tmax - o
        lo == Tmin - o
    IN Branch(IF o > 0 THEN Cmp(v > hi, hi) ELSE {FALSE},
              o > 0 /\ Overflows(hi), FALSE, v,
              Done(Tmax),
              Branch(IF o < 0 THEN Cmp(v < lo, lo) ELSE {FALSE},
                     o < 0 /\ Overflows(lo), FALSE, v,
                     Done(Tmin),
                     Store(v + o)))

\* operator-= without its second condition (other.value < 0).
SubAssignNoUpperGuard(v, o) ==
    LET lo == Tmin + o
    IN Branch(IF o > 0 THEN Cmp(v < lo, lo) ELSE {FALSE},
              o > 0 /\ Overflows(lo), FALSE, v,
              Done(Tmin),
              Store(v - o))

\* operator-=
SubAssignOutcomes(v, o) ==
    LET lo == Tmin + o
        hi == Tmax + o
    IN Branch(IF o > 0 THEN Cmp(v < lo, lo) ELSE {FALSE},
              o > 0 /\ Overflows(lo), FALSE, v,
              Done(Tmin),
              Branch(IF o < 0 THEN Cmp(v > hi, hi) ELSE {FALSE},
                     o < 0 /\ Overflows(hi), FALSE, v,
                     Done(Tmax),
                     Store(v - o)))

\* One condition of operator*=: "signs && value <cmp> limit / other.value",
\* exact being the comparison against the exact quotient.
MulGuard(signs, exact, limit, o) ==
    IF ~signs THEN {FALSE}
    ELSE IF DivUndefined(limit, o) THEN BOOLEAN
    ELSE {exact}

\* operator*=
MulAssignOutcomes(v, o) ==
    IF v = 0 \/ o = 0 THEN Done(0)
    ELSE
        LET pp == v > 0 /\ o > 0
            pn == v > 0 /\ o < 0
            np == v < 0 /\ o > 0
            nn == v < 0 /\ o < 0
            upp == pp /\ DivUndefined(Tmax, o)
            upn == pn /\ DivUndefined(Tmin, o)
            unp == np /\ DivUndefined(Tmin, o)
            unn == nn /\ DivUndefined(Tmax, o)
        IN Branch(MulGuard(pp, v > Quot(Tmax, o), Tmax, o), upp, upp, v,
                  Done(Tmax),
           Branch(MulGuard(pn, v > Quot(Tmin, o), Tmin, o), upn, upn, v,
                  Done(Tmin),
           Branch(MulGuard(np, v < Quot(Tmin, o), Tmin, o), unp, unp, v,
                  Done(Tmin),
           Branch(MulGuard(nn, v < Quot(Tmax, o), Tmax, o), unn, unn, v,
                  Done(Tmax),
                  Store(v * o)))))

\* value /= other.value
DivStore(v, o) ==
    IF o = 0 THEN {Outcome(v, TRUE, TRUE), Outcome(0, TRUE, FALSE)}
    ELSE IF Overflows(Quot(v, o))
         THEN {Outcome(v, TRUE, TRUE), Outcome(Wrap(Quot(v, o)), TRUE, FALSE)}
    ELSE Store(Quot(v, o))

\* value %= other.value
RemStore(v, o) ==
    IF o = 0 THEN {Outcome(v, TRUE, TRUE), Outcome(v, TRUE, FALSE)}
    ELSE IF Overflows(Quot(v, o))
         THEN {Outcome(v, TRUE, TRUE), Outcome(0, TRUE, FALSE)}
    ELSE Store(Rem(v, o))

\* operator/= without its second condition (min / -1).
DivAssignNoMinGuard(v, o) ==
    IF o = 0 THEN Done(Tmax)
    ELSE DivStore(v, o)

\* operator/=
DivAssignOutcomes(v, o) ==
    IF o = 0 THEN Done(Tmax)
    ELSE IF v = Tmin /\ o = -1 THEN Done(Tmax)
    ELSE DivStore(v, o)

\* operator%= with the second branch of operator/= (min % -1 gives max).
ModAssignLikeDiv(v, o) ==
    IF o = 0 THEN Done(Tmax)
    ELSE IF v = Tmin /\ o = -1 THEN Done(Tmax)
    ELSE RemStore(v, o)

\* operator%=
ModAssignOutcomes(v, o) ==
    IF o = 0 THEN Done(Tmax)
    ELSE IF v = Tmin /\ o = -1 THEN Done(0)
    ELSE RemStore(v, o)

\* operator++ comparing with <= instead of <.
IncOffByOne(v) == IF v <= Tmax THEN Store(v + 1) ELSE Done(v)

\* operator++ (both forms): if ( value < max ) ++value
IncOutcomes(v) == IF v < Tmax THEN Store(v + 1) ELSE Done(v)

\* operator-- (both forms): if ( value > min ) --value
DecOutcomes(v) == IF v > Tmin THEN Store(v - 1) ELSE Done(v)

\* operator-() without the test for min.
NegUnchecked(v) == Store(-v)

\* operator-() saturating min to max.
NegSaturating(v) == IF v # Tmin THEN Store(-v) ELSE Done(Tmax)

\* operator-() const
NegOutcomes(v) == IF v # Tmin THEN Store(-v) ELSE Done(v)

Init ==
    /\ promotes \in BOOLEAN
    /\ value \in TRange
    /\ op = "ctor"
    /\ before = value
    /\ other = value
    /\ ret = value
    /\ ub = FALSE
    /\ trapped = FALSE

\* What every operator records about its application.
Applied(name, o, r) ==
    /\ op' = name
    /\ before' = value
    /\ other' = o
    /\ ub' = r.ub
    /\ trapped' = r.trap
    /\ UNCHANGED promotes

\* An operator that changes *this and returns *this.
Compound(name, o, S) ==
    /\ ~trapped
    /\ \E r \in S :
        /\ value' = IF r.trap THEN value ELSE r.val
        /\ ret' = IF r.trap THEN ret ELSE r.val
        /\ Applied(name, o, r)

\* An operator that changes *this and returns the copy made before.
Postfix(name, S) ==
    /\ ~trapped
    /\ \E r \in S :
        /\ value' = IF r.trap THEN value ELSE r.val
        /\ ret' = IF r.trap THEN ret ELSE value
        /\ Applied(name, 0, r)

\* A const operator: it works on the copy tmp and returns it.
OnCopy(name, o, S) ==
    /\ ~trapped
    /\ \E r \in S :
        /\ value' = value
        /\ ret' = IF r.trap THEN ret ELSE r.val
        /\ Applied(name, o, r)

AddAssign == \E o \in TRange : Compound("+=", o, AddAssignOutcomes(value, o))
SubAssign == \E o \in TRange : Compound("-=", o, SubAssignOutcomes(value, o))
MulAssign == \E o \in TRange : Compound("*=", o, MulAssignOutcomes(value, o))
DivAssign == \E o \in TRange : Compound("/=", o, DivAssignOutcomes(value, o))
ModAssign == \E o \in TRange : Compound("%=", o, ModAssignOutcomes(value, o))
PreInc == Compound("++x", 0, IncOutcomes(value))
PostInc == Postfix("x++", IncOutcomes(value))
PreDec == Compound("--x", 0, DecOutcomes(value))
PostDec == Postfix("x--", DecOutcomes(value))
Plus == \E o \in TRange : OnCopy("+", o, AddAssignOutcomes(value, o))
Minus == \E o \in TRange : OnCopy("-", o, SubAssignOutcomes(value, o))
Times == \E o \in TRange : OnCopy("*", o, MulAssignOutcomes(value, o))
Divide == \E o \in TRange : OnCopy("/", o, DivAssignOutcomes(value, o))
Modulo == \E o \in TRange : OnCopy("%", o, ModAssignOutcomes(value, o))
Negate == OnCopy("neg", 0, NegOutcomes(value))

\* *this = elf_integer<T>( elf_integer<U>( u ) )
Convert ==
    /\ ~trapped
    /\ \E u \in URange :
        /\ value' = ConvertValue(u)
        /\ ret' = ConvertValue(u)
        /\ Applied("convert", u, Outcome(ConvertValue(u), FALSE, FALSE))

Next ==
    \/ AddAssign
    \/ SubAssign
    \/ MulAssign
    \/ DivAssign
    \/ ModAssign
    \/ PreInc
    \/ PostInc
    \/ PreDec
    \/ PostDec
    \/ Plus
    \/ Minus
    \/ Times
    \/ Divide
    \/ Modulo
    \/ Negate
    \/ Convert

Spec == Init /\ [][Next]_vars

TypeOK ==
    /\ promotes \in BOOLEAN
    /\ value \in Int
    /\ ret \in Int
    /\ ub \in BOOLEAN
    /\ trapped \in BOOLEAN

(***************************************************************************)
(* Properties                                                              *)
(***************************************************************************)

\* The nearest value of [min(T), max(T)] to the exact result x.
Clamp(x) == IF x > Tmax THEN Tmax ELSE IF x < Tmin THEN Tmin ELSE x

\* q is the quotient of a by b truncated toward zero (b # 0).
IsTruncQuot(a, b, q) ==
    /\ Abs(q) * Abs(b) <= Abs(a)
    /\ Abs(a) < (Abs(q) + 1) * Abs(b)
    /\ q > 0 => ((a < 0) = (b < 0))
    /\ q < 0 => ((a < 0) # (b < 0))

\* r is the remainder that goes with the truncated quotient of a by b.
IsTruncRem(a, b, r) ==
    /\ Abs(r) < Abs(b)
    /\ r = 0 \/ ((r < 0) = (a < 0))
    /\ \E q \in (Tmin - 1) .. (Tmax + 1) : IsTruncQuot(a, b, q) /\ a = q * b + r

\* C1: converting a value of the wider type U yields max(T) above max(T),
\* min(T) below min(T) and the value itself in between.
C1_ConversionClamps ==
    op = "convert" => value = Clamp(other) /\ ret = Clamp(other)

\* C2: after any sequence of operators the stored value and the returned
\* value are within [min(T), max(T)].
C2_RangeInvariant == InT(value) /\ InT(ret)

C2_Witness ==
    /\ op = "*="
    /\ before * other > Tmax
    /\ value = Tmax
    /\ ret = Tmax

\* C3: no operator evaluates an expression that overflows T or divides by
\* zero, neither in its conditions nor in its final arithmetic step.
C3_NoIntermediateOverflow ==
    op \in {"+=", "-=", "*=", "/=", "%=", "++x", "x++", "--x", "x--", "neg"}
        => ~ub /\ ~trapped

\* C4: a *= b and a * b yield the exact product clamped to [min(T), max(T)].
C4_MulIsClampedProduct ==
    /\ op \in {"*=", "*"} => ~trapped /\ ret = Clamp(before * other)
    /\ op = "*=" => value = ret
    /\ op = "*" => value = before

\* C5: a += b, a + b, a -= b and a - b yield the exact sum or difference
\* clamped to [min(T), max(T)]; the binary forms leave the operand alone.
C5_AddSubClamp ==
    /\ op \in {"+=", "+"} => ret = Clamp(before + other)
    /\ op \in {"-=", "-"} => ret = Clamp(before - other)
    /\ op \in {"+=", "-="} => value = ret
    /\ op \in {"+", "-"} => value = before

C5_Witness ==
    /\ op = "-="
    /\ other = Tmin
    /\ before >= 0
    /\ value = Tmax

\* C6: x / 0 is max(T), min(T) / -1 is max(T), every other quotient is the
\* exact one truncated toward zero, and no division ends in an error.
C6_Division ==
    op \in {"/=", "/"} =>
        /\ ~ub
        /\ ~trapped
        /\ IF other = 0 THEN ret = Tmax
           ELSE IF before = Tmin /\ other = -1 THEN ret = Tmax
           ELSE IsTruncQuot(before, other, ret)
        /\ value = IF op = "/=" THEN ret ELSE before

C6_Witness ==
    /\ op = "/="
    /\ before = Tmin
    /\ other = -1
    /\ value = Tmax

\* C7: x % 0 is max(T), min(T) % -1 is 0, every other remainder r is the
\* truncated one: a = (a / b) * b + r, |r| < |b|, r is 0 or has a's sign.
C7_Remainder ==
    op \in {"%=", "%"} =>
        /\ ~ub
        /\ ~trapped
        /\ IF other = 0 THEN ret = Tmax
           ELSE IF before = Tmin /\ other = -1 THEN ret = 0
           ELSE IsTruncRem(before, other, ret)
        /\ value = IF op = "%=" THEN ret ELSE before

C7_Witness ==
    /\ op = "%="
    /\ before = Tmin
    /\ other = -1
    /\ value = 0

\* C8: ++ adds one below max(T) and does nothing at max(T); -- subtracts one
\* above min(T) and does nothing at min(T); the postfix forms return the
\* value held before, the prefix forms the value held after.
C8_IncDecStopAtBounds ==
    /\ op \in {"++x", "x++"} =>
            value = IF before < Tmax THEN before + 1 ELSE Tmax
    /\ op \in {"--x", "x--"} =>
            value = IF before > Tmin THEN before - 1 ELSE Tmin
    /\ op \in {"x++", "x--"} => ret = before
    /\ op \in {"++x", "--x"} => ret = value

C8_Witness ==
    /\ op = "x++"
    /\ before = Tmax
    /\ value = Tmax
    /\ ret = Tmax

\* C9: -x is the exact negation for x # min(T) and min(T) for x = min(T);
\* the operand keeps its value.
C9_UnaryMinus ==
    op = "neg" =>
        /\ ret = IF before = Tmin THEN Tmin ELSE 0 - before
        /\ value = before

C9_Witness ==
    /\ op = "neg"
    /\ before = Tmin
    /\ ret = Tmin
    /\ value = Tmin

\* C10: for x # min(T), -x, 0 - x and x * (-1) return the same value; at
\* min(T) unary minus returns min(T) and the other two max(T); and
\* -(-x) = x for every x.
C10_NegationConsistency ==
    /\ (op = "*" /\ other = -1) =>
            /\ ~trapped
            /\ IF before = Tmin THEN ret = Tmax
               ELSE {ret} = {r.val : r \in NegOutcomes(before)}
    /\ (op = "-" /\ before = 0) =>
            IF other = Tmin THEN ret = Tmax
            ELSE {ret} = {r.val : r \in NegOutcomes(other)}
    /\ op = "neg" =>
            /\ before = Tmin => ret = Tmin
            /\ {r.val : r \in NegOutcomes(ret)} = {before}
====
